---- MODULE Spec2Model ----
(***************************************************************************)
(* Model of data/download_training.py: the command line entry point, the   *)
(* index resolution, the bounded worker pool that runs one                 *)
(* download_scene_data task per requested scene, and the collection of the *)
(* per-scene outcomes followed by the summary and the directory listing.   *)
(*                                                                         *)
(* Text values (file names, lines of the index and split files) are        *)
(* sequences of one-character strings, so that startswith / endswith /     *)
(* replace / strip / str() / int() are computed as Python computes them.   *)
(* Directory names and bucket names are atoms (TLA+ strings).              *)
(***************************************************************************)
EXTENDS Integers, Sequences, FiniteSets, TLC

\* ------------------------------------------------------------------------
\* Bounds of the model
\* ------------------------------------------------------------------------

\* longest list of requested scene indices in the general specification
MaxScenes == 2

\* number of requested scenes in the worker-pool specification
PoolScenes == 6

\* longest identifier (in building blocks) fed to the secondary-id derivation
MaxIdParts == 2

\* ------------------------------------------------------------------------
\* Text helpers (Python str semantics)
\* ------------------------------------------------------------------------

SegmentPrefix == <<"s", "e", "g", "m", "e", "n", "t", "-">>

LabelSuffix == <<"_", "w", "i", "t", "h", "_", "c", "a", "m", "e", "r", "a", "_", "l", "a", "b", "e", "l", "s">>

TfrecordExt == <<".", "t", "f", "r", "e", "c", "o", "r", "d">>

ParquetExt == <<".", "p", "a", "r", "q", "u", "e", "t">>

Whitespace == {" ", "\n", "\t"}

Digits == <<"0", "1", "2", "3", "4", "5", "6", "7", "8", "9">>

\* str.startswith
StartsWith(s, p) == Len(s) >= Len(p) /\ SubSeq(s, 1, Len(p)) = p

\* str.endswith
EndsWith(s, p) == Len(s) >= Len(p) /\ SubSeq(s, Len(s) - Len(p) + 1, Len(s)) = p

\* str.replace(old, new): every non-overlapping occurrence, left to right
RECURSIVE Replace(_, _, _)
Replace(s, old, new) ==
    IF Len(s) < Len(old) THEN s
    ELSE IF StartsWith(s, old)
         THEN new \o Replace(SubSeq(s, Len(old) + 1, Len(s)), old, new)
         ELSE <<Head(s)>> \o Replace(Tail(s), old, new)

RECURSIVE LStrip(_)
LStrip(s) == IF s # <<>> /\ Head(s) \in Whitespace THEN LStrip(Tail(s)) ELSE s

RECURSIVE RStrip(_)
RStrip(s) ==
    IF s # <<>> /\ s[Len(s)] \in Whitespace THEN RStrip(SubSeq(s, 1, Len(s) - 1)) ELSE s

\* str.strip
Strip(s) == RStrip(LStrip(s))

\* str(n) for n >= 0
RECURSIVE NatToStr(_)
NatToStr(n) == IF n < 10 THEN <<Digits[n + 1]>> ELSE NatToStr(n \div 10) \o <<Digits[(n % 10) + 1]>>

\* str(n) of an int
IntToStr(n) == IF n < 0 THEN <<"-">> \o NatToStr(0 - n) ELSE NatToStr(n)

DigitValue(c) == CHOOSE d \in 0..9 : Digits[d + 1] = c

IsDigit(c) == \E d \in 1..10 : Digits[d] = c

\* the first field of str.split(",")
RECURSIVE FirstField(_)
FirstField(s) ==
    IF s = <<>> \/ Head(s) = "," THEN <<>> ELSE <<Head(s)>> \o FirstField(Tail(s))

Unsigned(s) == IF s # <<>> /\ Head(s) \in {"-", "+"} THEN Tail(s) ELSE s

\* int(s) succeeds: optional surrounding whitespace, optional sign, digits
IsIntLiteral(s) ==
    LET u == Unsigned(Strip(s))
    IN  u # <<>> /\ \A k \in 1..Len(u) : IsDigit(u[k])

RECURSIVE DigitsToNat(_)
DigitsToNat(u) ==
    IF u = <<>> THEN 0 ELSE 10 * DigitsToNat(SubSeq(u, 1, Len(u) - 1)) + DigitValue(u[Len(u)])

\* int(s) where it succeeds
StrToInt(s) ==
    LET t == Strip(s)
    IN  IF t # <<>> /\ Head(t) = "-" THEN 0 - DigitsToNat(Unsigned(t)) ELSE DigitsToNat(Unsigned(t))

\* ------------------------------------------------------------------------
\* Program constants and pure functions of the source
\* ------------------------------------------------------------------------

\* ThreadPoolExecutor(max_workers=5)
max_workers == 5

\* variant: the folder of the second category spelled "lidarbox"
data_types_lidarbox ==
    << <<"lidar", "lidar">>,
       <<"lidar_box", "lidarbox">>,
       <<"lidar_calibration", "lidar_calibration">>,
       <<"lidar_camera_projection", "lidar_camera_projection">>,
       <<"lidar_camera_synced_box", "lidar_camera_synced_box">>,
       <<"lidar_pose", "lidar_pose">>,
       <<"vehicle_pose", "vehicle_pose">> >>

\* data_types of download_parsed_data: (data_type, folder_name) pairs
data_types ==
    << <<"lidar", "lidar">>,
       <<"lidar_box", "lidar_box">>,
       <<"lidar_calibration", "lidar_calibration">>,
       <<"lidar_camera_projection", "lidar_camera_projection">>,
       <<"lidar_camera_synced_box", "lidar_camera_synced_box">>,
       <<"lidar_pose", "lidar_pose">>,
       <<"vehicle_pose", "vehicle_pose">> >>

\* the local directory target_dir itself
TargetRoot == "."

\* gs://waymo_open_dataset_v_1_4_1/individual_files/training/{filename}.tfrecord
tfrecord_url(filename) ==
    [bucket |-> "waymo_open_dataset_v_1_4_1",
     dir    |-> <<"individual_files", "training">>,
     name   |-> filename \o TfrecordExt]

\* variant: the f prefix of the string forgotten, the name is the literal text
parquet_file_literal(scene_id) ==
    <<"{", "s", "c", "e", "n", "e", "_", "i", "d", "}">> \o ParquetExt

\* f"{scene_id}.parquet"
parquet_file(scene_id) == scene_id \o ParquetExt

\* gs://waymo_open_dataset_v_2_0_0/training/{data_type}/{parquet_file}
parquet_url(data_type, file) ==
    [bucket |-> "waymo_open_dataset_v_2_0_0",
     dir    |-> <<"training", data_type>>,
     name   |-> file]

\* the secondary id download_scene_data derives from the filename record
segment_id(filename, scene_id) ==
    IF StartsWith(filename, SegmentPrefix) /\ EndsWith(filename, LabelSuffix)
    THEN Replace(Replace(filename, SegmentPrefix, <<>>), LabelSuffix, <<>>)
    ELSE IntToStr(scene_id)

\* total_list[i] is defined (no IndexError)
InBounds(list, i) == (0 - Len(list)) <= i /\ i < Len(list)

\* total_list[i] with Python's indexing, negative offsets counting from the end
PyIndex(list, i) == IF i < 0 THEN list[Len(list) + i + 1] ELSE list[i + 1]

\* int(line.strip().split(",")[0])
split_field(line) == FirstField(Strip(line))

\* ------------------------------------------------------------------------
\* State
\* ------------------------------------------------------------------------

VARIABLES
    args,         \* parsed command line: scene_ids, split_given
    split_file,   \* the split file on disk: exists, lines
    train_list,   \* the index file on disk: exists, lines
    absent,       \* objects the remote store does not hold
    pc,           \* position of the main thread
    exit_status,  \* process exit status once pc = "exit"
    scene_ids,    \* scene indices handed to download_training_data
    file_names,   \* filename records resolved from the index file
    futures,      \* one record per submitted task, in submission order
    queue,        \* submitted tasks no worker has taken yet
    counter,      \* position of the result loop (enumerate start=1)
    reports,      \* per-scene outcome lines printed so far
    fs_dirs,      \* directories existing under target_dir
    fs_files,     \* files existing under target_dir
    listing       \* what the final os.walk printed

vars == <<args, split_file, train_list, absent, pc, exit_status, scene_ids,
          file_names, futures, queue, counter, reports, fs_dirs, fs_files,
          listing>>

inputs == <<args, split_file, train_list, absent>>

NotExited == 0 - 1

Running == {k \in 1..Len(futures) : futures[k].state = "RUNNING"}

Settled(k) == futures[k].state = "FINISHED"

NewFuture ==
    [state |-> "PENDING", failed |-> FALSE, step |-> 0, segment_id |-> <<>>,
     cmds |-> <<>>]

\* outcomes the copy tool can produce: an absent object always fails, a
\* present one may still fail (network, credentials)
run_command(url) == IF url \in absent THEN {FALSE} ELSE BOOLEAN

\* ------------------------------------------------------------------------
\* Main thread
\* ------------------------------------------------------------------------

\* sys.exit(1), or an uncaught exception ending the interpreter
Die ==
    /\ pc' = "exit"
    /\ exit_status' = 1

\* main(): choose the scene indices from --scene_ids or from the split file
main ==
    /\ pc = "main"
    /\ IF args.split_given
       THEN IF ~split_file.exists
            THEN Die /\ UNCHANGED scene_ids
            ELSE LET split_lines == IF split_file.lines = <<>> THEN <<>>
                                    ELSE Tail(split_file.lines)
                 IN  IF \E k \in 1..Len(split_lines) :
                            ~IsIntLiteral(split_field(split_lines[k]))
                     THEN Die /\ UNCHANGED scene_ids
                     ELSE /\ scene_ids' = [k \in 1..Len(split_lines) |->
                                              StrToInt(split_field(split_lines[k]))]
                          /\ pc' = "download"
                          /\ UNCHANGED exit_status
       ELSE /\ scene_ids' = args.scene_ids
            /\ pc' = "download"
            /\ UNCHANGED exit_status
    /\ UNCHANGED <<inputs, file_names, futures, queue, counter, reports,
                   fs_dirs, fs_files, listing>>

\* download_training_data up to the executor: mkdir, read the index, resolve
resolve ==
    /\ pc = "download"
    /\ fs_dirs' = fs_dirs \cup {TargetRoot}
    /\ IF ~train_list.exists
       THEN Die /\ UNCHANGED file_names
       ELSE LET total_list == train_list.lines
            IN  IF \E k \in 1..Len(scene_ids) : ~InBounds(total_list, scene_ids[k])
                THEN Die /\ UNCHANGED file_names
                ELSE /\ file_names' = [k \in 1..Len(scene_ids) |->
                                          Strip(PyIndex(total_list, scene_ids[k]))]
                     /\ pc' = "submit"
                     /\ UNCHANGED exit_status
    /\ UNCHANGED <<inputs, scene_ids, futures, queue, counter, reports,
                   fs_files, listing>>

\* executor.submit for the next (scene_id, filename) pair of the zip
submit ==
    /\ pc = "submit"
    /\ IF Len(futures) < Len(scene_ids)
       THEN /\ futures' = Append(futures, NewFuture)
            /\ queue' = Append(queue, Len(futures) + 1)
            /\ UNCHANGED pc
       ELSE /\ pc' = "collect"
            /\ UNCHANGED <<futures, queue>>
    /\ UNCHANGED <<inputs, exit_status, scene_ids, file_names, counter,
                   reports, fs_dirs, fs_files, listing>>

\* variant: the loop stops at the first failed task
collect_break ==
    /\ pc = "collect"
    /\ counter <= Len(futures)
    /\ Settled(counter)
    /\ reports' = Append(reports, [counter |-> counter, task |-> counter,
                                   ok |-> ~futures[counter].failed])
    /\ counter' = IF futures[counter].failed THEN Len(futures) + 1 ELSE counter + 1
    /\ UNCHANGED <<inputs, pc, exit_status, scene_ids, file_names, futures,
                   queue, fs_dirs, fs_files, listing>>

\* variant: results are taken as the tasks complete, not in submission order
collect_as_completed ==
    /\ pc = "collect"
    /\ counter <= Len(futures)
    /\ \E k \in 1..Len(futures) :
          /\ Settled(k)
          /\ \A j \in 1..Len(reports) : reports[j].task # k
          /\ reports' = Append(reports, [counter |-> counter, task |-> k,
                                         ok |-> ~futures[k].failed])
    /\ counter' = counter + 1
    /\ UNCHANGED <<inputs, pc, exit_status, scene_ids, file_names, futures,
                   queue, fs_dirs, fs_files, listing>>

\* variant: no try/except around future.result(), a failure ends the process
collect_uncaught ==
    /\ pc = "collect"
    /\ counter <= Len(futures)
    /\ Settled(counter)
    /\ IF futures[counter].failed
       THEN /\ \A k \in 1..Len(futures) : Settled(k)
            /\ Die
            /\ UNCHANGED <<reports, counter>>
       ELSE /\ reports' = Append(reports, [counter |-> counter, task |-> counter,
                                           ok |-> TRUE])
            /\ counter' = counter + 1
            /\ UNCHANGED <<pc, exit_status>>
    /\ UNCHANGED <<inputs, scene_ids, file_names, futures, queue, fs_dirs,
                   fs_files, listing>>

\* one iteration of the result loop: future.result() inside try/except
collect ==
    /\ pc = "collect"
    /\ counter <= Len(futures)
    /\ Settled(counter)
    /\ reports' = Append(reports, [counter |-> counter, task |-> counter,
                                   ok |-> ~futures[counter].failed])
    /\ counter' = counter + 1
    /\ UNCHANGED <<inputs, pc, exit_status, scene_ids, file_names, futures,
                   queue, fs_dirs, fs_files, listing>>

\* leaving the with block: executor.shutdown(wait=True)
shutdown ==
    /\ pc = "collect"
    /\ counter > Len(futures)
    /\ \A k \in 1..Len(futures) : Settled(k)
    /\ pc' = "summary"
    /\ UNCHANGED <<inputs, exit_status, scene_ids, file_names, futures, queue,
                   counter, reports, fs_dirs, fs_files, listing>>

\* variant: the exit status reflects the per-scene outcomes
summary_status_from_outcomes ==
    /\ pc = "summary"
    /\ listing' = [dirs |-> fs_dirs, files |-> fs_files]
    /\ pc' = "exit"
    /\ exit_status' = IF \E j \in 1..Len(reports) : ~reports[j].ok THEN 1 ELSE 0
    /\ UNCHANGED <<inputs, scene_ids, file_names, futures, queue, counter,
                   reports, fs_dirs, fs_files>>

\* the closing messages and the os.walk listing, then a normal return
summary ==
    /\ pc = "summary"
    /\ listing' = [dirs |-> fs_dirs, files |-> fs_files]
    /\ pc' = "exit"
    /\ exit_status' = 0
    /\ UNCHANGED <<inputs, scene_ids, file_names, futures, queue, counter,
                   reports, fs_dirs, fs_files>>

\* ------------------------------------------------------------------------
\* Worker threads
\* ------------------------------------------------------------------------

\* variant: the pool admits one task more than max_workers
download_scene_data_extra_worker(k) ==
    /\ queue # <<>>
    /\ k = Head(queue)
    /\ Cardinality(Running) <= max_workers
    /\ queue' = Tail(queue)
    /\ futures' = [futures EXCEPT ![k].state = "RUNNING"]
    /\ UNCHANGED <<inputs, pc, exit_status, scene_ids, file_names, counter,
                   reports, fs_dirs, fs_files, listing>>

\* a worker of the pool takes the oldest queued task and enters
\* download_scene_data; the pool never has more than max_workers workers
download_scene_data(k) ==
    /\ queue # <<>>
    /\ k = Head(queue)
    /\ Cardinality(Running) < max_workers
    /\ queue' = Tail(queue)
    /\ futures' = [futures EXCEPT ![k].state = "RUNNING"]
    /\ UNCHANGED <<inputs, pc, exit_status, scene_ids, file_names, counter,
                   reports, fs_dirs, fs_files, listing>>

\* the task's future after a copy request failed: the exception leaves
\* download_scene_data and is stored in the future
Raise(f, cmd) ==
    [f EXCEPT !.state = "FINISHED", !.failed = TRUE, !.cmds = Append(@, cmd)]

\* download_tfrecord_file, then the derivation of the secondary id
download_tfrecord_file(k) ==
    /\ k \in Running
    /\ futures[k].step = 0
    /\ LET url == tfrecord_url(file_names[k])
       IN  \E ok \in run_command(url) :
             LET cmd == [url |-> url, dest |-> TargetRoot, ok |-> ok]
             IN  IF ok
                 THEN /\ fs_files' = fs_files \cup {[dir |-> TargetRoot, name |-> url.name]}
                      /\ futures' = [futures EXCEPT
                            ![k].cmds = Append(@, cmd),
                            ![k].segment_id = segment_id(file_names[k], scene_ids[k]),
                            ![k].step = 1]
                 ELSE /\ futures' = [futures EXCEPT ![k] = Raise(@, cmd)]
                      /\ UNCHANGED fs_files
    /\ UNCHANGED <<inputs, pc, exit_status, scene_ids, file_names, queue,
                   counter, reports, fs_dirs, listing>>

\* variant: a failed category copy is not raised, the loop goes on
download_parsed_data_no_raise(k) ==
    /\ k \in Running
    /\ futures[k].step \in 1..Len(data_types)
    /\ LET data_type   == data_types[futures[k].step][1]
           folder_name == data_types[futures[k].step][2]
           url == parquet_url(data_type, parquet_file(futures[k].segment_id))
       IN  /\ fs_dirs' = fs_dirs \cup {folder_name}
           /\ \E ok \in run_command(url) :
                LET cmd == [url |-> url, dest |-> folder_name, ok |-> ok]
                IN  /\ fs_files' = IF ok
                                   THEN fs_files \cup {[dir |-> folder_name, name |-> url.name]}
                                   ELSE fs_files
                    /\ futures' = [futures EXCEPT
                          ![k].cmds = Append(@, cmd),
                          ![k].step = @ + 1,
                          ![k].state = IF futures[k].step = Len(data_types)
                                       THEN "FINISHED" ELSE @]
    /\ UNCHANGED <<inputs, pc, exit_status, scene_ids, file_names, queue,
                   counter, reports, listing>>

\* one iteration of the loop of download_parsed_data: mkdir, then the copy
download_parsed_data(k) ==
    /\ k \in Running
    /\ futures[k].step \in 1..Len(data_types)
    /\ LET data_type   == data_types[futures[k].step][1]
           folder_name == data_types[futures[k].step][2]
           url == parquet_url(data_type, parquet_file(futures[k].segment_id))
       IN  /\ fs_dirs' = fs_dirs \cup {folder_name}
           /\ \E ok \in run_command(url) :
                LET cmd == [url |-> url, dest |-> folder_name, ok |-> ok]
                IN  IF ok
                    THEN /\ fs_files' = fs_files \cup {[dir |-> folder_name, name |-> url.name]}
                         /\ futures' = [futures EXCEPT
                               ![k].cmds = Append(@, cmd),
                               ![k].step = @ + 1,
                               ![k].state = IF futures[k].step = Len(data_types)
                                            THEN "FINISHED" ELSE @]
                    ELSE /\ futures' = [futures EXCEPT ![k] = Raise(@, cmd)]
                         /\ UNCHANGED fs_files
    /\ UNCHANGED <<inputs, pc, exit_status, scene_ids, file_names, queue,
                   counter, reports, listing>>

Next ==
    \/ main
    \/ resolve
    \/ submit
    \/ collect
    \/ shutdown
    \/ summary
    \/ \E k \in 1..Len(futures) : download_scene_data(k)
    \/ \E k \in 1..Len(futures) : download_tfrecord_file(k)
    \/ \E k \in 1..Len(futures) : download_parsed_data(k)

\* ------------------------------------------------------------------------
\* Inputs and specifications
\* ------------------------------------------------------------------------

Newline == <<"\n">>

RecA == SegmentPrefix \o <<"a">> \o LabelSuffix

\* an identifier that itself contains the leading marker
RecNested == SegmentPrefix \o <<"a">> \o SegmentPrefix \o LabelSuffix

RecWeird == <<"w", "e", "i", "r", "d">>

Header == <<"i", ",", "n">> \o Newline

NoFile == [exists |-> FALSE, lines |-> <<>>]

File(lines) == [exists |-> TRUE, lines |-> lines]

\* index files: missing, empty, and two two-line files
TrainLists ==
    { NoFile,
      File(<<>>),
      File(<< RecA \o Newline, <<" ">> \o RecWeird \o <<" ">> \o Newline >>),
      File(<< RecNested \o Newline, RecA >>) }

\* scene indices: inside, below and above the two-line index files
IdRange == {0 - 3, 0 - 1, 0, 2}

SceneLists == UNION {[1..n -> IdRange] : n \in 1..MaxScenes}

\* split files: missing, empty, header only, two rows, a non-numeric row
SplitFiles ==
    { NoFile,
      File(<<>>),
      File(<<Header>>),
      File(<<Header, <<"1", ",", "x">> \o Newline, <<" ", "0", " ", ",", "y">> \o Newline>>),
      File(<<Header, <<"x", ",", "1">> \o Newline>>) }

\* the state right after the interpreter starts main()
Start ==
    /\ pc = "main"
    /\ exit_status = NotExited
    /\ scene_ids = <<>>
    /\ file_names = <<>>
    /\ futures = <<>>
    /\ queue = <<>>
    /\ counter = 1
    /\ reports = <<>>
    /\ fs_dirs = {}
    /\ fs_files = {}
    /\ listing = [dirs |-> {}, files |-> {}]

Init ==
    /\ train_list \in TrainLists
    /\ \/ /\ args \in {[scene_ids |-> s, split_given |-> FALSE] : s \in SceneLists}
          /\ split_file = NoFile
       \/ /\ args = [scene_ids |-> <<0>>, split_given |-> TRUE]
          /\ split_file \in SplitFiles
    /\ absent = {}
    /\ Start

Spec == Init /\ [][Next]_vars

MainThread == main \/ resolve \/ submit \/ collect \/ shutdown \/ summary

Workers ==
    \E k \in 1..Len(futures) :
        download_scene_data(k) \/ download_tfrecord_file(k) \/ download_parsed_data(k)

\* runs over one existing index file, indices given on the command line
InitLive ==
    /\ train_list = File(<< RecA \o Newline, <<" ">> \o RecWeird \o <<" ">> \o Newline >>)
    /\ args \in {[scene_ids |-> s, split_given |-> FALSE] : s \in SceneLists}
    /\ split_file = NoFile
    /\ absent = {}
    /\ Start

\* every thread that can take a step eventually does; a copy-tool call returns
FairSpec == InitLive /\ [][Next]_vars /\ WF_vars(MainThread) /\ WF_vars(Workers)

\* --- inputs of the secondary-id derivation ---

IdParts == {<<"a">>, <<"7">>, SegmentPrefix, LabelSuffix}

RECURSIVE IdStrings(_)
IdStrings(n) ==
    IF n = 0 THEN {<<>>}
    ELSE IdStrings(n - 1) \cup {s \o p : s \in IdStrings(n - 1), p \in IdParts}

DeriveInputs ==
    {pre \o id \o suf : pre \in {<<>>, SegmentPrefix}, suf \in {<<>>, LabelSuffix},
                        id \in IdStrings(MaxIdParts)}

InitDerive ==
    /\ train_list \in {File(<<f \o Newline>>) : f \in DeriveInputs}
    /\ args \in {[scene_ids |-> <<i>>, split_given |-> FALSE] : i \in {0, 0 - 1}}
    /\ split_file = NoFile
    /\ absent = {}
    /\ Start

SpecDerive == InitDerive /\ [][Next]_vars

\* --- a run with more scenes than workers ---

PoolRecord(i) == SegmentPrefix \o NatToStr(i) \o LabelSuffix

\* scenes 0..PoolScenes-1; the remote store holds every primary file but the
\* category tables of scene 0 only
InitPool ==
    /\ train_list = File([i \in 1..PoolScenes |-> PoolRecord(i - 1) \o Newline])
    /\ args = [scene_ids |-> [k \in 1..PoolScenes |-> k - 1], split_given |-> FALSE]
    /\ split_file = NoFile
    /\ absent = {parquet_url(data_types[1][1], parquet_file(NatToStr(i))) : i \in 1..(PoolScenes - 1)}
    /\ Start

SpecPool == InitPool /\ [][Next]_vars

\* ------------------------------------------------------------------------
\* Properties
\* ------------------------------------------------------------------------

LineCount == Len(train_list.lines)

\* the category table in its fixed order
Categories ==
    <<"lidar", "lidar_box", "lidar_calibration", "lidar_camera_projection",
      "lidar_camera_synced_box", "lidar_pose", "vehicle_pose">>

CategorySet == {Categories[c] : c \in 1..Len(Categories)}

\* every requested index is a zero-based line offset into the index file
AllInRange == \A k \in 1..Len(scene_ids) : scene_ids[k] \in 0..(LineCount - 1)

\* the local paths task k has asked the copy tool to write
Dests(k) ==
    {[dir |-> futures[k].cmds[j].dest, name |-> futures[k].cmds[j].url.name] :
        j \in 1..Len(futures[k].cmds)}

\* C1: failure isolation.  Once a run over in-range scene indices has ended,
\* every one of the N scenes had its task started and has exactly one outcome
\* report, whatever the copy-tool calls returned: the number of reports is N.
FailureIsolation ==
    (pc = "exit" /\ train_list.exists /\ AllInRange) =>
        /\ Len(futures) = Len(scene_ids)
        /\ Len(reports) = Len(scene_ids)
        /\ \A k \in 1..Len(scene_ids) :
              /\ futures[k].cmds # <<>>
              /\ Cardinality({j \in 1..Len(reports) : reports[j].task = k}) = 1

\* a finished run of two scenes in which the first failed and the second
\* was still fetched and reported as a success
FailureIsolationWitness ==
    /\ pc = "exit"
    /\ Len(reports) = 2
    /\ ~reports[1].ok
    /\ reports[2].ok
    /\ Len(futures[2].cmds) = 8

\* C2: concurrency bound.  At most 5 scene-fetch tasks execute at the same
\* time, however many scenes were requested.
ConcurrencyBound == Cardinality(Running) <= 5

\* the sixth task runs, together with four others, after one task settled
ConcurrencyBoundWitness ==
    /\ Len(futures) >= 6
    /\ futures[6].state = "RUNNING"
    /\ Cardinality(Running) = 5
    /\ \E k \in 1..5 : Settled(k)

\* C3: report ordering.  The j-th report printed is the report of the j-th
\* submitted task, and it is printed only once that task has settled, with
\* that task's outcome.
ReportOrdering ==
    \A j \in 1..Len(reports) :
        /\ reports[j].task = j
        /\ reports[j].counter = j
        /\ Settled(j)
        /\ reports[j].ok = ~futures[j].failed

\* the second task has already failed while the first one, which succeeded
\* later or earlier, is the only one reported so far
ReportOrderingWitness ==
    /\ Len(futures) = 2
    /\ Len(reports) = 1
    /\ reports[1].ok
    /\ Settled(2)
    /\ futures[2].failed

\* C4: an index outside 0..lineCount-1 makes resolution end in a fatal error;
\* it is never skipped and never resolved to some record.
InvalidIndexIsFatal ==
    (pc \notin {"main", "download"} /\ train_list.exists /\ ~AllInRange) =>
        /\ pc = "exit"
        /\ exit_status # 0
        /\ file_names = <<>>

SplitMissing == args.split_given /\ ~split_file.exists

\* C5 as stated: the exit status is non-zero exactly when the index file or a
\* given split file is missing.
ExitStatusMissingFilesOnly ==
    pc = "exit" =>
        (exit_status # 0 <=> (SplitMissing \/ ~train_list.exists))

\* a row after the header whose first comma field is not an integer
SplitMalformed ==
    /\ args.split_given
    /\ split_file.exists
    /\ \E r \in 2..Len(split_file.lines) :
          ~IsIntLiteral(FirstField(Strip(split_file.lines[r])))

\* an index for which the positional lookup raises (outside -lineCount..lineCount-1)
LookupRaises ==
    \E k \in 1..Len(scene_ids) :
        scene_ids[k] >= LineCount \/ scene_ids[k] < 0 - LineCount

\* C5 (amended): the exit status is non-zero exactly when a given split file
\* is missing or has a non-integer leading field, the index file is missing,
\* or the lookup of a scene index raises; otherwise it is zero whatever the
\* outcomes of the scene fetches.
ExitStatus ==
    pc = "exit" =>
        (exit_status # 0 <=>
            (SplitMissing \/ SplitMalformed \/ ~train_list.exists \/ LookupRaises))

\* a run that exits with status zero although a scene fetch failed
ExitStatusWitness ==
    /\ pc = "exit"
    /\ exit_status = 0
    /\ \E k \in 1..Len(futures) : futures[k].failed

\* the record has the form "segment-" + id + "_with_camera_labels"
HasSegmentForm(f) ==
    /\ Len(f) >= Len(SegmentPrefix) + Len(LabelSuffix)
    /\ SubSeq(f, 1, Len(SegmentPrefix)) = SegmentPrefix
    /\ SubSeq(f, Len(f) - Len(LabelSuffix) + 1, Len(f)) = LabelSuffix

\* the substring between the leading and the trailing marker
Between(f) == SubSeq(f, Len(SegmentPrefix) + 1, Len(f) - Len(LabelSuffix))

\* C6: the secondary id a task derives is exactly the id between the two
\* markers for a record of the segment form (whatever the id contains), and
\* the scene index as a string for any other record.
SecondaryIdDerivation ==
    \A k \in 1..Len(futures) :
        futures[k].step >= 1 =>
            futures[k].segment_id =
                IF HasSegmentForm(file_names[k]) THEN Between(file_names[k])
                ELSE IntToStr(scene_ids[k])

ExpectedRequest(k, j) ==
    IF j = 1
    THEN [bucket |-> "waymo_open_dataset_v_1_4_1",
          dir    |-> <<"individual_files", "training">>,
          name   |-> file_names[k] \o TfrecordExt]
    ELSE [bucket |-> "waymo_open_dataset_v_2_0_0",
          dir    |-> <<"training", Categories[j - 1]>>,
          name   |-> futures[k].segment_id \o ParquetExt]

\* C8: fail-fast within a scene.  The copy requests of a task are the primary
\* file and then the seven categories in table order, each at most once; a
\* request is issued only if all earlier ones succeeded, and a failed request
\* is the task's last one and settles the task as failed.
FailFast ==
    \A k \in 1..Len(futures) :
        LET c == futures[k].cmds
        IN  /\ Len(c) <= 1 + Len(Categories)
            /\ \A j \in 1..Len(c) :
                  /\ c[j].url = ExpectedRequest(k, j)
                  /\ (j < Len(c) => c[j].ok)
                  /\ (~c[j].ok => Settled(k) /\ futures[k].failed)
            /\ (futures[k].failed => c # <<>> /\ ~c[Len(c)].ok)

\* a task that failed at a category copy after some categories succeeded
FailFastWitness ==
    \E k \in 1..Len(futures) :
        /\ futures[k].failed
        /\ Len(futures[k].cmds) \in 3..7

\* C9 as stated: any two distinct tasks write to disjoint sets of local paths,
\* whatever the requested indices and the index file.
DisjointWrites ==
    \A i, j \in 1..Len(futures) : i # j => Dests(i) \cap Dests(j) = {}

\* C9 (amended): two distinct tasks whose filename records differ and whose
\* derived secondary ids differ write to disjoint sets of local paths.
DisjointWritesDistinct ==
    \A i, j \in 1..Len(futures) :
        ( /\ i # j
          /\ file_names[i] # file_names[j]
          /\ segment_id(file_names[i], scene_ids[i]) # segment_id(file_names[j], scene_ids[j]) )
        => Dests(i) \cap Dests(j) = {}

\* two tasks with different records and ids that both completed all 8 copies
DisjointWritesWitness ==
    \E i, j \in 1..Len(futures) :
        /\ i # j
        /\ file_names[i] # file_names[j]
        /\ segment_id(file_names[i], scene_ids[i]) # segment_id(file_names[j], scene_ids[j])
        /\ Len(futures[i].cmds) = 8 /\ ~futures[i].failed
        /\ Len(futures[j].cmds) = 8 /\ ~futures[j].failed

AllSettled ==
    /\ Len(futures) = Len(scene_ids)
    /\ \A k \in 1..Len(futures) : Settled(k)

\* C10: settle before summary.  The summary and listing step is never entered
\* while a dispatched task is pending or running, and, every copy-tool call
\* returning, a run that got past index resolution reaches the summary and
\* the listing with every task settled.
SettleBeforeSummary ==
    /\ []((pc = "summary" \/ (pc = "exit" /\ exit_status = 0)) => AllSettled)
    /\ (pc = "submit") ~> (pc = "exit" /\ exit_status = 0 /\ TargetRoot \in listing.dirs /\ AllSettled)

\* the listing was printed after two tasks settled, one of them failed
SettleBeforeSummaryWitness ==
    /\ pc = "exit"
    /\ exit_status = 0
    /\ Len(futures) = 2
    /\ TargetRoot \in listing.dirs
    /\ futures[1].failed
    /\ ~futures[2].failed

====
